---- MODULE Spec2Model ----
(***************************************************************************)
(* Model of src/budget_analyzer.py: the Transaction record, the queries of *)
(* BudgetAnalyzer, print_summary step by step, load_transactions and main. *)
(*                                                                         *)
(* Amounts are Python floats.  A float is modelled as an integer number of *)
(* units (the spacing of the smallest floats) that carries at most         *)
(* MantBits significant bits; every float addition and division rounds its *)
(* exact result to the nearest such value, ties to even, as IEEE-754 does  *)
(* with 53 bits.  Counts and the start value 0 of sum() are Python ints    *)
(* and are exact.  A dict is modelled as the sequence of its <<key,        *)
(* value>> pairs in insertion order.                                       *)
(***************************************************************************)
EXTENDS Integers, Sequences, FiniteSets, TLC

\* transactions: self.transactions, the list the analyzer refers to
\* pc:           where control is (idle, a line of print_summary or of main,
\*               done, crashed)
\* caller:       who called print_summary: main, or code holding an analyzer
\* op, ret, exc: the method called last, what it returned, what it raised
\* prev:         what the call before returned (transaction_description only)
\* log:          the records written to budgetanalyzer.log
VARIABLES transactions, pc, caller, op, ret, exc, prev, log

vars == <<transactions, pc, caller, op, ret, exc, prev, log>>

(* ------------------------------- bounds -------------------------------- *)

MaxLen == 3

MantBits == 3

(* ------------------------------- floats -------------------------------- *)

RECURSIVE Pow2(_)
Pow2(n) == IF n = 0 THEN 1 ELSE 2 * Pow2(n - 1)

Abs(x) == IF x < 0 THEN -x ELSE x

\* spacing of the floats around the magnitude n >= 0
RECURSIVE Ulp(_)
Ulp(n) == IF n < Pow2(MantBits) THEN 1 ELSE 2 * Ulp(n \div 2)

\* the float nearest to the exact quotient num / den (num >= 0, den > 0),
\* ties to the even mantissa
RoundQuot(num, den) ==
    LET u   == Ulp(num \div den)
        lo  == ((num \div den) \div u) * u
        rem == 2 * (num - lo * den)
    IN  IF rem < u * den THEN lo
        ELSE IF rem > u * den THEN lo + u
        ELSE IF (lo \div u) % 2 = 0 THEN lo ELSE lo + u

Round(x) == IF x < 0 THEN -RoundQuot(-x, 1) ELSE RoundQuot(x, 1)

\* a + b on floats (an int operand converts exactly)
FAdd(a, b) == Round(a + b)

\* a / n: float divided by a positive int
FDiv(a, n) == IF a < 0 THEN -RoundQuot(-a, n) ELSE RoundQuot(a, n)

\* sum(iterable): starts from int 0 and adds left to right, each addition
\* rounded
RECURSIVE FSumFrom(_, _)
FSumFrom(acc, s) ==
    IF s = <<>> THEN acc ELSE FSumFrom(FAdd(acc, Head(s)), Tail(s))

FSum(s) == FSumFrom(0, s)

\* sum(iterable) over ints: exact
RECURSIVE ISum(_)
ISum(s) == IF s = <<>> THEN 0 ELSE Head(s) + ISum(Tail(s))

(* -------------------------------- dicts -------------------------------- *)

Keys(d) == [i \in 1..Len(d) |-> d[i][1]]

Values(d) == [i \in 1..Len(d) |-> d[i][2]]

HasKey(d, k) == \E i \in 1..Len(d) : d[i][1] = k

\* d.get(k, dflt)
DictGet(d, k, dflt) ==
    IF HasKey(d, k)
    THEN d[CHOOSE i \in 1..Len(d) : d[i][1] = k][2]
    ELSE dflt

\* d[k] = v: an existing key keeps its position, a new key goes last
DictSet(d, k, v) ==
    IF HasKey(d, k)
    THEN [i \in 1..Len(d) |-> IF d[i][1] = k THEN <<k, v>> ELSE d[i]]
    ELSE Append(d, <<k, v>>)

(* ----------------------------- Transaction ----------------------------- *)

\* the attribute description does not exist until transaction_description
NoAttr == "<no attribute>"

None == "<None>"

Dates == {1, 2}

Categories == {"groceries", "salary"}

Big == Pow2(MantBits)

Amounts == {-Big, -1, 0, 1}

Transaction(date, amount, category) ==
    [date |-> date, amount |-> amount, category |-> category,
     description |-> NoAttr]

\* mutant: the expense test made non-strict
is_expense_nonstrict(t) == t.amount <= 0

is_expense(t) == t.amount < 0

\* the Transaction objects of the model: an expense of either category or
\* an income (an amount >= 0) of the category "salary", on either date
TransactionObjects ==
    {Transaction(d, a, c) : d \in Dates, a \in {x \in Amounts : x < 0},
                            c \in Categories}
    \cup {Transaction(d, a, "salary") : d \in Dates,
                                        a \in {x \in Amounts : x >= 0}}

\* every list of at most MaxLen Transaction objects
TransactionLists == UNION {[1..n -> TransactionObjects] : n \in 0..MaxLen}

(* ---------------------------- BudgetAnalyzer ---------------------------- *)

not_expense(t) == ~is_expense(t)

amounts_of(txs) == [i \in 1..Len(txs) |-> txs[i].amount]

\* the transactions the generator of total_spent yields, and of total_earned
spent_terms(txs) == SelectSeq(txs, is_expense)

earned_terms(txs) == SelectSeq(txs, not_expense)

\* sum(t.amount for t in self.transactions if t.is_expense())
total_spent(txs) == FSum(amounts_of(spent_terms(txs)))

\* sum(t.amount for t in self.transactions if not t.is_expense())
total_earned(txs) == FSum(amounts_of(earned_terms(txs)))

RECURSIVE summary_loop(_, _)
summary_loop(summary, txs) ==
    IF txs = <<>> THEN summary
    ELSE LET t == Head(txs)
         IN  summary_loop(
                 IF is_expense(t)
                 THEN DictSet(summary, t.category,
                              FAdd(DictGet(summary, t.category, 0), Abs(t.amount)))
                 ELSE summary,
                 Tail(txs))

\* mutant: the is_expense() filter dropped, every transaction adds to its key
RECURSIVE summary_loop_all(_, _)
summary_loop_all(summary, txs) ==
    IF txs = <<>> THEN summary
    ELSE LET t == Head(txs)
         IN  summary_loop_all(
                 DictSet(summary, t.category,
                         FAdd(DictGet(summary, t.category, 0), Abs(t.amount))),
                 Tail(txs))

spending_by_category_all(txs) == summary_loop_all(<<>>, txs)

spending_by_category(txs) == summary_loop(<<>>, txs)

RECURSIVE avg_daily_loop(_, _)
avg_daily_loop(avg_daily, txs) ==
    IF txs = <<>> THEN avg_daily
    ELSE LET t == Head(txs)
         IN  avg_daily_loop(
                 IF is_expense(t)
                 THEN DictSet(avg_daily, t.date,
                              FAdd(DictGet(avg_daily, t.date, 0), Abs(t.amount)))
                 ELSE avg_daily,
                 Tail(txs))

\* the result of a call: the value returned, or the exception raised
Returns(v) == [exc |-> "none", value |-> v]

Raises(e) == [exc |-> e, value |-> None]

\* mutant: the flat mean of the raw expense amounts, not grouped by day
average_daily_spending_flat(txs) ==
    LET spends == [i \in 1..Len(spent_terms(txs)) |->
                      Abs(spent_terms(txs)[i].amount)]
    IN  IF Len(spends) = 0
        THEN Raises("ZeroDivisionError")
        ELSE Returns(FDiv(FSum(spends), Len(spends)))

\* sum(avg_daily.values()) / len(avg_daily): the division raises when the
\* dict is empty
average_daily_spending(txs) ==
    LET avg_daily == avg_daily_loop(<<>>, txs)
    IN  IF Len(avg_daily) = 0
        THEN Raises("ZeroDivisionError")
        ELSE Returns(FDiv(FSum(Values(avg_daily)), Len(avg_daily)))

RECURSIVE categories_loop(_, _)
categories_loop(categories, txs) ==
    IF txs = <<>> THEN categories
    ELSE LET t == Head(txs)
         IN  categories_loop(
                 DictSet(categories, t.category,
                         DictGet(categories, t.category, 0) + 1),
                 Tail(txs))

\* mutant: only the expenses are counted
Number_of_transactions_per_category_expenses(txs) ==
    categories_loop(<<>>, spent_terms(txs))

Number_of_transactions_per_category(txs) == categories_loop(<<>>, txs)

\* t.description = 'Debit' / 'Credit'
set_description(t) ==
    [t EXCEPT !.description = IF is_expense(t) THEN "Debit" ELSE "Credit"]

\* f"Transaction {t.amount} {t.category} on {t.date.date()} - {t.description}"
fields(t) ==
    <<"Transaction", t.amount, t.category, "on", t.date, "-", t.description>>

\* mutant: the list is reversed while it is annotated
described_reversed(txs) ==
    [i \in 1..Len(txs) |-> set_description(txs[Len(txs) + 1 - i])]

\* the list self.transactions after the loop of transaction_description
described(txs) == [i \in 1..Len(txs) |-> set_description(txs[i])]

\* mutant: the two labels swapped in the rendered strings
transaction_description_swapped(txs) ==
    [i \in 1..Len(txs) |->
        fields([txs[i] EXCEPT !.description =
                    IF is_expense(txs[i]) THEN "Credit" ELSE "Debit"])]

\* the list transaction_description returns
transaction_description(txs) ==
    [i \in 1..Len(txs) |-> fields(set_description(txs[i]))]

(* ------------------------------- logging ------------------------------- *)

\* f"{x:.2f}": the text of x with two decimals
Fmt2f(x) == <<"%.2f", x>>

Info(section, text) == [level |-> "INFO", section |-> section, text |-> text]

line_157 == Info("header", "------ Budget Summary ------")

\* mutant: the total spent logged where the total earned belongs
line_158_spent(txs) ==
    Info("spent", <<"Total Spent:  $", Fmt2f(Abs(total_spent(txs)))>>)

line_158(txs) == Info("earned", <<"Total Earned: $", Fmt2f(total_earned(txs))>>)

line_159(txs) == Info("spent", <<"Total Spent:  $", Fmt2f(Abs(total_spent(txs)))>>)

lines_160(txs) ==
    LET d == spending_by_category(txs)
    IN  <<Info("by_category", "Spending by Category:")>> \o
        [i \in 1..Len(d) |->
            Info("by_category", <<d[i][1], ": $", Fmt2f(d[i][2])>>)]

line_163(value) == Info("average", <<"Average daily spend: $", Fmt2f(value)>>)

\* line 166 looks every key up in a second call of the same query
lines_164(txs) ==
    LET d == Number_of_transactions_per_category(txs)
    IN  <<Info("counts", "Number of transactions per category:")>> \o
        [i \in 1..Len(d) |->
            Info("counts",
                 <<d[i][1], ": ",
                   DictGet(Number_of_transactions_per_category(txs), d[i][1], None)>>)]

lines_169(descriptions) ==
    [i \in 1..Len(descriptions) |-> Info("descriptions", descriptions[i])]

(* ------------------------- calls of the queries ------------------------ *)

\* a caller holding an analyzer calls a query; it catches what the call
\* raises and goes on
Invoke(name, r) ==
    /\ pc = "idle"
    /\ op' = name
    /\ ret' = r.value
    /\ exc' = r.exc
    /\ prev' = <<>>
    /\ UNCHANGED <<transactions, pc, caller, log>>

call_total_spent == Invoke("total_spent", Returns(total_spent(transactions)))

call_total_earned == Invoke("total_earned", Returns(total_earned(transactions)))

call_spending_by_category ==
    Invoke("spending_by_category", Returns(spending_by_category(transactions)))

call_average_daily_spending ==
    Invoke("average_daily_spending", average_daily_spending(transactions))

call_Number_of_transactions_per_category ==
    Invoke("Number_of_transactions_per_category",
           Returns(Number_of_transactions_per_category(transactions)))

\* prev holds the list the call before returned when that call was
\* transaction_description too, and is empty otherwise
call_transaction_description ==
    /\ pc = "idle"
    /\ op' = "transaction_description"
    /\ transactions' = described(transactions)
    /\ ret' = transaction_description(transactions)
    /\ exc' = "none"
    /\ prev' = IF op = "transaction_description" THEN <<ret>> ELSE <<>>
    /\ UNCHANGED <<pc, caller, log>>

\* one summary per analysis pass: the log is the output of that pass
call_print_summary ==
    /\ pc = "idle"
    /\ log = <<>>
    /\ op' = "print_summary"
    /\ ret' = None
    /\ exc' = "none"
    /\ prev' = <<>>
    /\ pc' = "ps_157"
    /\ UNCHANGED <<transactions, caller, log>>

(* ----------------------------- print_summary --------------------------- *)

Emit(lines, next) ==
    /\ log' = log \o lines
    /\ pc' = next
    /\ UNCHANGED <<transactions, caller, op, ret, exc, prev>>

\* where control goes when print_summary returns, and when it raises
AfterReturn == IF caller = "main" THEN "done" ELSE "idle"

AfterRaise == IF caller = "main" THEN "crashed" ELSE "idle"

ps_157 == pc = "ps_157" /\ Emit(<<line_157>>, "ps_158")

ps_158 == pc = "ps_158" /\ Emit(<<line_158(transactions)>>, "ps_159")

ps_159 == pc = "ps_159" /\ Emit(<<line_159(transactions)>>, "ps_160")

ps_160 == pc = "ps_160" /\ Emit(lines_160(transactions), "ps_163")

ps_163 ==
    /\ pc = "ps_163"
    /\ LET r == average_daily_spending(transactions)
       IN  IF r.exc = "none"
           THEN Emit(<<line_163(r.value)>>, "ps_164")
           ELSE /\ exc' = r.exc
                /\ pc' = AfterRaise
                /\ UNCHANGED <<transactions, caller, op, ret, prev, log>>

ps_164 == pc = "ps_164" /\ Emit(lines_164(transactions), "ps_168")

\* the call in the for statement of line 168 runs before the first line of
\* the loop is logged
ps_168 ==
    /\ pc = "ps_168"
    /\ transactions' = described(transactions)
    /\ ret' = transaction_description(transactions)
    /\ pc' = "ps_169"
    /\ UNCHANGED <<caller, op, exc, prev, log>>

ps_169 ==
    /\ pc = "ps_169"
    /\ log' = log \o lines_169(ret)
    /\ ret' = None
    /\ pc' = AfterReturn
    /\ UNCHANGED <<transactions, caller, op, exc, prev>>

print_summary ==
    ps_157 \/ ps_158 \/ ps_159 \/ ps_160 \/ ps_163 \/ ps_164 \/ ps_168 \/ ps_169

(* --------------------- load_transactions and main ---------------------- *)

\* the file holds a list of well-typed items: one Transaction per item
main_200_loaded ==
    /\ pc = "main_200"
    /\ \E loaded \in TransactionLists : transactions' = loaded
    /\ pc' = "main_202"
    /\ UNCHANGED <<caller, op, ret, exc, prev, log>>

\* FileNotFoundError or JSONDecodeError: logged, the list is empty
main_200_failed ==
    /\ pc = "main_200"
    /\ transactions' = <<>>
    /\ log' = Append(log, [level |-> "ERROR", section |-> "load",
                           text |-> "Failed to load transactions"])
    /\ pc' = "main_202"
    /\ UNCHANGED <<caller, op, ret, exc, prev>>

main_202 ==
    /\ pc = "main_202"
    /\ IF transactions = <<>>
       THEN /\ log' = Append(log, [level |-> "WARNING", section |-> "main",
                                   text |-> "No transactions to analyze."])
            /\ pc' = "done"
            /\ UNCHANGED op
       ELSE /\ op' = "print_summary"
            /\ pc' = "ps_157"
            /\ UNCHANGED log
    /\ UNCHANGED <<transactions, caller, ret, exc, prev>>

(* --------------------------- specifications ---------------------------- *)

\* an analyzer constructed over any list, queried in any order
Init ==
    /\ transactions \in TransactionLists
    /\ pc = "idle"
    /\ caller = "harness"
    /\ op = "__init__"
    /\ ret = None
    /\ exc = "none"
    /\ prev = <<>>
    /\ log = <<>>

Next ==
    \/ call_total_spent
    \/ call_total_earned
    \/ call_spending_by_category
    \/ call_average_daily_spending
    \/ call_Number_of_transactions_per_category
    \/ call_transaction_description
    \/ call_print_summary
    \/ print_summary

Spec == Init /\ [][Next]_vars

\* the program run from main()
InitMain ==
    /\ transactions = <<>>
    /\ pc = "main_200"
    /\ caller = "main"
    /\ op = "main"
    /\ ret = None
    /\ exc = "none"
    /\ prev = <<>>
    /\ log = <<>>

NextMain == main_200_loaded \/ main_200_failed \/ main_202 \/ print_summary

SpecMain == InitMain /\ [][NextMain]_vars

(* -------------------------------- claims -------------------------------- *)

IsExpenseAmount(t) == t.amount < 0

HasExpense(txs) == \E i \in 1..Len(txs) : IsExpenseAmount(txs[i])

Range(s) == {s[i] : i \in 1..Len(s)}

\* C1: when no transaction is an expense, average_daily_spending() does not
\* end in a ZeroDivisionError.
C1_NoDivisionByZero ==
    (op = "average_daily_spending" /\ ~HasExpense(transactions))
        => exc # "ZeroDivisionError"

\* C2: main() never ends in an unhandled runtime failure, whatever well-typed
\* list load_transactions returned.
C2_MainNeverFails == pc # "crashed" /\ exc = "none"

\* C3: the values of spending_by_category() sum to abs(total_spent()).
C3_CategorySumIsAbsTotal ==
    (op = "spending_by_category")
        => FSum(Values(ret)) = Abs(total_spent(transactions))

\* the distinct dates that carry an expense
ExpenseDays(txs) ==
    {txs[i].date : i \in {j \in 1..Len(txs) : IsExpenseAmount(txs[j])}}

FirstExpenseOn(txs, d) ==
    CHOOSE i \in 1..Len(txs) :
        /\ txs[i].date = d /\ IsExpenseAmount(txs[i])
        /\ \A j \in 1..(i - 1) : ~(txs[j].date = d /\ IsExpenseAmount(txs[j]))

\* the expense total of the day d: the absolute amounts of its expenses, added
\* in the order of the list
DayTotal(txs, d) ==
    LET OnDay(t) == t.date = d /\ IsExpenseAmount(t)
        day == SelectSeq(txs, OnDay)
    IN  FSum([i \in 1..Len(day) |-> Abs(day[i].amount)])

\* the days with an expense, in the order of their first expense
DaysInOrder(txs) ==
    CHOOSE s \in [1..Cardinality(ExpenseDays(txs)) -> ExpenseDays(txs)] :
        \A i, j \in DOMAIN s :
            i < j => FirstExpenseOn(txs, s[i]) < FirstExpenseOn(txs, s[j])

MeanOfDayTotals(txs) ==
    LET days == DaysInOrder(txs)
    IN  FDiv(FSum([i \in 1..Len(days) |-> DayTotal(txs, days[i])]),
             Cardinality(ExpenseDays(txs)))

\* C4: with at least one expense, average_daily_spending() returns the mean of
\* the per-day expense totals, divided by the number of distinct dates that
\* carry an expense.
C4_AverageIsMeanOfDayTotals ==
    (op = "average_daily_spending" /\ HasExpense(transactions))
        => (exc = "none" /\ ret = MeanOfDayTotals(transactions))

\* two expenses share a day and another day carries an income only
C4_Witness ==
    /\ op = "average_daily_spending"
    /\ exc = "none"
    /\ Cardinality(ExpenseDays(transactions)) = 1
    /\ Len(spent_terms(transactions)) = 2
    /\ \E i \in 1..Len(transactions) :
           transactions[i].date \notin ExpenseDays(transactions)
    /\ ret = DayTotal(transactions, transactions[1].date)

C6_CountsSumToLength ==
    (op = "Number_of_transactions_per_category")
        => ISum(Values(ret)) = Len(transactions)

C6_Witness ==
    /\ op = "Number_of_transactions_per_category"
    /\ Len(ret) = 2
    /\ Len(transactions) >= 3
    /\ \E i \in 1..Len(transactions) : ~IsExpenseAmount(transactions[i])
    /\ HasExpense(transactions)

Label(t) == IF IsExpenseAmount(t) THEN "Debit" ELSE "Credit"

IsInfo(line) == line.level = "INFO"

SectionOrder ==
    <<"header", "earned", "spent", "by_category", "average", "counts",
      "descriptions">>

Rank(section) == CHOOSE r \in 1..Len(SectionOrder) : SectionOrder[r] = section

\* C8: the lines of print_summary come in the order header, total earned,
\* total spent, spending by category, average, counts, descriptions: no
\* section before an earlier one, none left out, the one-line sections once;
\* and no description is written before the counts have been emitted.
C8_FixedOrder ==
    LET s == SelectSeq(log, IsInfo)
    IN  /\ \A i, j \in 1..Len(s) :
               i < j => Rank(s[i].section) <= Rank(s[j].section)
        /\ \A i \in 1..Len(s) : \A r \in 1..(Rank(s[i].section) - 1) :
               \E j \in 1..(i - 1) : Rank(s[j].section) = r
        /\ \A i, j \in 1..Len(s) :
               (i # j /\ s[i].section = s[j].section)
                   => s[i].section \in {"by_category", "counts", "descriptions"}
        /\ (\E i \in 1..Len(transactions) :
                transactions[i].description # NoAttr)
               => \E j \in 1..Len(s) : s[j].section = "counts"

\* a whole summary, over several transactions and categories
C8_Witness ==
    /\ pc = "done"
    /\ Len(transactions) >= 2
    /\ LET s == SelectSeq(log, IsInfo)
       IN  /\ Len(s) >= 10
           /\ s[Len(s)].section = "descriptions"

\* C9: no step changes the length or order of the list or the date, amount
\* or category of a transaction, and only transaction_description (called
\* directly, or by print_summary at line 168) writes description.
C9_Frame ==
    [][/\ Len(transactions') = Len(transactions)
       /\ \A i \in 1..Len(transactions) :
              /\ transactions'[i].date = transactions[i].date
              /\ transactions'[i].amount = transactions[i].amount
              /\ transactions'[i].category = transactions[i].category
       /\ transactions' # transactions
              => \/ pc = "idle" /\ op' = "transaction_description"
                 \/ pc = "ps_168"]_vars

\* a summary has run to its end over a list that is no palindrome
C9_Witness ==
    /\ pc = "idle"
    /\ op = "print_summary"
    /\ log # <<>>
    /\ Len(transactions) >= 2
    /\ transactions[1] # transactions[Len(transactions)]
    /\ \A i \in 1..Len(transactions) : transactions[i].description # NoAttr

\* C10: over the empty list total_spent() and total_earned() return 0 and
\* the two dicts are empty; and every key of spending_by_category() is the
\* category of some expense.
C10_EmptyAndKeys ==
    /\ transactions = <<>> =>
           /\ (op = "total_spent") => ret = 0
           /\ (op = "total_earned") => ret = 0
           /\ (op = "spending_by_category") => ret = <<>>
           /\ (op = "Number_of_transactions_per_category") => ret = <<>>
    /\ (op = "spending_by_category") =>
           \A k \in Range(Keys(ret)) :
               \E i \in 1..Len(transactions) :
                   /\ transactions[i].category = k
                   /\ IsExpenseAmount(transactions[i])

\* a category that carries an income only, next to one with an expense
C10_Witness ==
    /\ op = "spending_by_category"
    /\ Len(ret) = 1
    /\ \E i \in 1..Len(transactions) :
           /\ ~IsExpenseAmount(transactions[i])
           /\ ~HasKey(ret, transactions[i].category)

====
